---- MODULE Spec2Model ----
(***************************************************************************)
(* A model of simplenote.py: the Simplenote client class, its cached       *)
(* token, its instance-level pagination mark, and the transport requests   *)
(* each public method issues.  The transport (requests.Session) is the     *)
(* environment: every request either returns a response or raises a        *)
(* connectivity error (an IOError subclass).                               *)
(***************************************************************************)
EXTENDS Integers, Sequences, FiniteSets, TLC

\* ---------------------------------------------------------------- constants
AUTH_URL == "https://app.simplenote.com/api/login"
DATA_URL == "https://app.simplenote.com/api2/data"
INDX_URL == "https://app.simplenote.com/api2/index?"
NOTE_FETCH_LENGTH == 100

\* ------------------------------------------------------------------- bounds
\* pages the listing endpoint serves at most within one get_note_list call
MaxPages == 2
\* records on one listing page at most
MaxPageLen == 1
\* login requests recorded at most over the life of the client
MaxLogins == 2
\* page requests of one listing call while another caller uses the instance
MaxConcRequests == 3

\* ------------------------------------------------------------ python values
\* Python's None
None == "None"
\* the value time.time() yields
Now == 1000
\* the constructor's arguments
Username == "user@example.com"
Password == "secret"
\* the threads that may call into the one client instance
Threads == {"t1", "t2"}

\* dictionaries are functions from the keys present to their values
Has(d, k) == k \in DOMAIN d
Put(d, k, v) == [x \in (DOMAIN d) \cup {k} |-> IF x = k THEN v ELSE d[x]]
EmptyDict == [x \in {} |-> None]
\* an exception object, as raised or as returned in place of a note
Exc(name) == [exception |-> name]
\* a truth test every string passes
TruthyAlways(s) == TRUE
\* truth value of a string
Truthy(s) == s # ""

\* a URL is the sequence of its path segments below the scheme and host
Url(base, segs) == <<base>> \o segs

\* ------------------------------------------------------------- input domains
NoteIds == {"k1", "k2"}
\* the version argument of get_note; NoVersion is its default, None
NoVersion == -1
Versions == {NoVersion, 2}
\* str() of a version number
str(v) == CASE v = 2 -> "2" [] v = 3 -> "3" [] OTHER -> "?"
TagNames == {"x", "y"}
\* the since argument: its default None, or a date string
Dates == {None, "2018-01-02"}

Dict4(k, c, m, d) ==
  LET dom == (IF k = None THEN {} ELSE {"key"})
             \cup (IF c = None THEN {} ELSE {"content"})
             \cup (IF m = -1 THEN {} ELSE {"modifydate"})
             \cup (IF d = -1 THEN {} ELSE {"deleted"})
  IN [f \in dom |-> CASE f = "key" -> k
                      [] f = "content" -> c
                      [] f = "modifydate" -> m
                      [] f = "deleted" -> d]

\* the notes a caller passes to update_note / add_note
CallerNotes ==
  { Dict4(k, c, m, -1) : k \in NoteIds \cup {None}, c \in {None, "hi"}, m \in {-1, 5} }
\* the notes the data endpoint answers with
ServerNotes ==
  { Dict4(k, "srv", m, d) : k \in NoteIds \cup {None}, m \in {-1, 7}, d \in {-1, 0} }

\* the summary records the listing endpoint serves
IndexRecords ==
  { [key |-> "A", tags |-> {"x"}, deleted |-> 1],
    [key |-> "C", tags |-> {}, deleted |-> 0] }
Marks == {"", "m1", "mark"}

RECURSIVE SeqsUpTo(_, _)
SeqsUpTo(S, n) ==
  IF n = 0 THEN { <<>> }
  ELSE LET shorter == SeqsUpTo(S, n - 1)
       IN shorter \cup { Append(s, x) : s \in { q \in shorter : Len(q) = n - 1 }, x \in S }

\* a listing page: "data" always, "mark" when the server sends one
Pages(marks, withAbsent) ==
  { [data |-> d, mark |-> m] : d \in SeqsUpTo(IndexRecords, MaxPageLen), m \in marks }
  \cup (IF withAbsent THEN { [data |-> d] : d \in SeqsUpTo(IndexRecords, MaxPageLen) } ELSE {})

\* ----------------------------------------------------------------- transport
\* session.post(AUTH_URL, ...): a body with a 200, a body with a 401, or a
\* connectivity error raised by the call
LoginResponses ==
  { [outcome |-> "ok", status_code |-> 200, text |-> "tok"],
    [outcome |-> "ok", status_code |-> 200, text |-> ""],
    [outcome |-> "ok", status_code |-> 401, text |-> "denied"],
    [outcome |-> "IOError", status_code |-> 0, text |-> ""] }

\* session.get / session.post / session.delete on the data endpoint
NoteResponses ==
  { [outcome |-> "ok", json |-> n] : n \in ServerNotes }
  \cup { [outcome |-> "IOError", json |-> EmptyDict] }

\* session.get on the index endpoint, as the k-th page request of a call; the
\* server's listing is finite, so the MaxPages-th page is its last one
IndexResponses(k) ==
  { [outcome |-> "ok", json |-> p] :
      p \in IF k >= MaxPages THEN Pages({""}, TRUE) ELSE Pages(Marks, TRUE) }
  \cup { [outcome |-> "IOError", json |-> EmptyDict] }

\* a server whose listing does not change: two pages, the first one served to
\* a request without a usable mark, the second one to the mark of the first
ServerListing == <<[key |-> "A", tags |-> {"x"}, deleted |-> 1],
                   [key |-> "C", tags |-> {}, deleted |-> 0]>>
ServerPage(params) ==
  IF Has(params, "mark") /\ params["mark"] = "m1"
  THEN [data |-> SubSeq(ServerListing, 2, 2)]
  ELSE [data |-> SubSeq(ServerListing, 1, 1), mark |-> "m1"]
ServerResponses(params) == { [outcome |-> "ok", json |-> ServerPage(params)] }

\* ---------------------------------------------------------------------- state
VARIABLES
  token,    \* self.token
  mark,     \* self.mark
  callers,  \* the threads that use the instance
  op,       \* per thread: the public method it is in ("idle" outside)
  pc,       \* per thread: the statement it is about to execute
  frame,    \* per thread: the locals of the call
  ret,      \* per thread: what the call returned or raised
  sent,     \* per thread: the data/index requests of the call, in order
  logins    \* the login requests of the instance, in order

vars == <<token, mark, callers, op, pc, frame, ret, sent, logins>>

Frame0 ==
  [ note_id |-> None, version |-> NoVersion, arg |-> EmptyDict, note |-> EmptyDict,
    url |-> <<>>, since |-> None, tags |-> {}, params |-> EmptyDict,
    notes |-> <<>>, status |-> 0,
    \* history: the mark get_note_list found on the instance when called
    entry_mark |-> None,
    \* history: did another caller write the mark during this listing call?
    disturbed |-> FALSE,
    \* history: the login requests this call has made
    logins |-> 0 ]

NoRet == [kind |-> "none", status |-> 0, value |-> EmptyDict]
\* return value, status
Returned(v, s) == [kind |-> "return", status |-> s, value |-> v]
\* an exception leaving the public method
Raised(name) == [kind |-> "raise", status |-> 0, value |-> Exc(name)]

\* Simplenote.__init__
InitInstance ==
  /\ token = None
  /\ mark = "mark"
  /\ op = [t \in Threads |-> "idle"]
  /\ pc = [t \in Threads |-> "idle"]
  /\ frame = [t \in Threads |-> Frame0]
  /\ ret = [t \in Threads |-> NoRet]
  /\ sent = [t \in Threads |-> <<>>]
  /\ logins = <<>>

\* one caller, synchronous calls
Init == InitInstance /\ callers = {"t1"}

\* ------------------------------------------------------------- encode/decode
\* __encode and __decode change a note only under Python 2
PY2 == FALSE
encode(note) == IF PY2 THEN [k \in DOMAIN note |-> <<"utf-8", note[k]>>] ELSE note
decode(note) == IF PY2 THEN [k \in DOMAIN note |-> <<"unicode", note[k]>>] ELSE note

\* ------------------------------------------------------------ authentication
\* the base64 encoding of the credentials string
b64encode(s) == <<"base64", s>>
auth_params(user, pass) == <<"email=", user, "&password=", pass>>

\* authenticate: the POST is outside the try block, so a connectivity error
\* leaves the method; inside it response.text cannot fail
authenticate(response) ==
  IF response.outcome = "IOError"
  THEN [raised |-> "IOError", token |-> None]
  ELSE [raised |-> None, token |-> response.text]

\* a get_token that ignores the cached token
NeedsLoginAlways(tok) == TRUE
\* a get_token that logs in again over any falsy cached value
NeedsLoginFalsy(tok) == tok = None \/ tok = ""
\* get_token, line 78: is a login needed?
NeedsLogin(tok) == tok = None

\* auth params that leave the account out
get_auth_params_anon(tok) == [auth |-> tok, email |-> None]
\* get_auth_params
get_auth_params(tok) == [auth |-> tok, email |-> Username]

\* what an IOError raised inside the statement at position p turns into
OnIOError(p) ==
  CASE p = "get_token" -> Raised("IOError")
    [] p = "get_note_list" -> Raised("IOError")
    [] p = "get_note" -> Raised("NameError")
    [] p = "update_note" -> Returned(Exc("IOError"), -1)
    [] p = "delete_note" -> Returned(Exc("IOError"), -1)

\* the statements that call get_auth_params (and through it get_token)
AuthPoints == {"get_token", "get_note", "update_note", "get_note_list", "delete_note"}

Finished(t, r) ==
  /\ pc' = [pc EXCEPT ![t] = "done"]
  /\ ret' = [ret EXCEPT ![t] = r]

\* get_token finding no token: authenticate and cache the result
Authenticate(t) ==
  /\ t \in callers
  /\ pc[t] \in AuthPoints
  /\ NeedsLogin(token)
  /\ Len(logins) < MaxLogins
  /\ \E response \in LoginResponses :
       LET a == authenticate(response)
       IN /\ logins' = Append(logins,
                 [url |-> AUTH_URL, data |-> b64encode(auth_params(Username, Password)),
                  response |-> response, result |-> a, cached |-> token])
          /\ IF a.raised # None
             THEN /\ Finished(t, OnIOError(pc[t]))
                  /\ UNCHANGED token
             ELSE /\ token' = a.token
                  /\ UNCHANGED <<pc, ret>>
  /\ frame' = [frame EXCEPT ![t].logins = @ + 1]
  /\ UNCHANGED <<mark, callers, op, sent>>

\* ------------------------------------------------------------------ get_token
CallGetToken(t) ==
  /\ t \in callers
  /\ pc[t] = "idle"
  /\ op' = [op EXCEPT ![t] = "get_token"]
  /\ pc' = [pc EXCEPT ![t] = "get_token"]
  /\ UNCHANGED <<token, mark, callers, frame, ret, sent, logins>>

\* lines 80-83: str(token, 'utf-8') raises TypeError on a str, token returned
GetTokenReturn(t) ==
  /\ t \in callers
  /\ pc[t] = "get_token"
  /\ op[t] = "get_token"
  /\ ~NeedsLogin(token)
  /\ Finished(t, Returned(token, 0))
  /\ UNCHANGED <<token, mark, callers, op, frame, sent, logins>>

\* the transport call of one data/index request, as the session saw it
Request(method, url, params, json, response) ==
  [method |-> method, url |-> url, params |-> params, json |-> json,
   response |-> response]
\* no json= argument
NoBody == <<>>
Body(note) == <<note>>

Send(t, request) == sent' = [sent EXCEPT ![t] = Append(@, request)]

\* ---------------------------------------------------------------- update_note
\* an update_note that stamps every keyed note, overwriting the caller's date
update_note_prepare_stamp(arg) ==
  LET note == decode(arg)
  IN IF Has(note, "key")
     THEN [note |-> Put(note, "modifydate", Now), url |-> Url(DATA_URL, <<note["key"]>>)]
     ELSE [note |-> note, url |-> Url(DATA_URL, <<>>)]
\* lines 139-148: the note to post and the URL to post it to
update_note_prepare(arg) ==
  LET note == decode(arg)
  IN IF Has(note, "key")
     THEN [note |-> IF ~Has(note, "modifydate") THEN Put(note, "modifydate", Now) ELSE note,
           url |-> Url(DATA_URL, <<note["key"]>>)]
     ELSE [note |-> note, url |-> Url(DATA_URL, <<>>)]

\* entering update_note with the given note, from a caller or from trash_note
EnterUpdateNote(t, note) ==
  LET u == update_note_prepare(note)
  IN /\ frame' = [frame EXCEPT ![t].note = u.note, ![t].url = u.url]
     /\ pc' = [pc EXCEPT ![t] = "update_note"]

CallUpdateNote(t) ==
  /\ t \in callers
  /\ pc[t] = "idle"
  /\ \E note \in CallerNotes :
       /\ op' = [op EXCEPT ![t] = "update_note"]
       /\ LET u == update_note_prepare(note)
          IN frame' = [frame EXCEPT ![t].arg = note, ![t].note = u.note, ![t].url = u.url]
       /\ pc' = [pc EXCEPT ![t] = "update_note"]
  /\ UNCHANGED <<token, mark, callers, ret, sent, logins>>

\* lines 282-289 up to the DELETE: the URL delete_note builds
delete_note_url(note_id) == Url(DATA_URL, <<note_id>>)
\* the URL delete_note passes to session.delete
delete_note_target(note_id) == Url(DATA_URL, <<>>)

\* lines 150-158: the POST, then back in the caller of update_note
UpdateNote(t) ==
  /\ t \in callers
  /\ pc[t] = "update_note"
  /\ ~NeedsLogin(token)
  /\ \E response \in NoteResponses :
       /\ Send(t, Request("POST", frame[t].url, get_auth_params(token),
                          Body(frame[t].note), response))
       /\ IF response.outcome = "IOError"
          THEN /\ Finished(t, OnIOError("update_note"))
               /\ UNCHANGED frame
          ELSE LET note == encode(response.json)
               IN IF op[t] = "delete_note"
                  THEN \* trash_note returned (note, 0): lines 279-282
                       /\ frame' = [frame EXCEPT ![t].note = note, ![t].status = 0,
                                                 ![t].url = delete_note_url(frame[t].note_id)]
                       /\ pc' = [pc EXCEPT ![t] = "delete_note"]
                       /\ UNCHANGED ret
                  ELSE /\ Finished(t, Returned(note, 0))
                       /\ frame' = [frame EXCEPT ![t].note = note]
  /\ UNCHANGED <<token, mark, callers, op, logins>>

\* ------------------------------------------------------------------- add_note
\* the shapes a caller may pass to add_note
AddNoteInputs ==
  { [type |-> "str", text |-> "hi", dict |-> EmptyDict],
    [type |-> "int", text |-> "", dict |-> EmptyDict] }
  \cup { [type |-> "dict", text |-> "", dict |-> n] : n \in CallerNotes }

\* an add_note that takes any dict, with or without content
add_note_arg_anydict(note) ==
  IF note.type = "str" THEN <<[content |-> note.text]>>
  ELSE IF note.type = "dict" THEN <<note.dict>>
  ELSE <<>>
\* lines 179-183: the note add_note hands to update_note, if it hands one
add_note_arg(note) ==
  IF note.type = "str" THEN <<[content |-> note.text]>>
  ELSE IF note.type = "dict" /\ Has(note.dict, "content") THEN <<note.dict>>
  ELSE <<>>

\* lines 179-184
CallAddNote(t) ==
  /\ t \in callers
  /\ pc[t] = "idle"
  /\ \E note \in AddNoteInputs :
       /\ op' = [op EXCEPT ![t] = "add_note"]
       /\ IF add_note_arg(note) # <<>>
          THEN LET u == update_note_prepare(add_note_arg(note)[1])
               IN /\ frame' = [frame EXCEPT ![t].arg = note, ![t].note = u.note, ![t].url = u.url]
                  /\ pc' = [pc EXCEPT ![t] = "update_note"]
                  /\ UNCHANGED ret
          ELSE /\ frame' = [frame EXCEPT ![t].arg = note]
               /\ Finished(t, Returned("No string or valid note.", -1))
  /\ UNCHANGED <<token, mark, callers, sent, logins>>

\* ------------------------------------------------------------------- get_note
\* line 110
get_note_url(noteid, version) ==
  Url(DATA_URL, IF version # NoVersion THEN <<noteid, str(version)>> ELSE <<noteid>>)

CallGetNote(t) ==
  /\ t \in callers
  /\ pc[t] = "idle"
  /\ \E noteid \in NoteIds, version \in Versions :
       /\ op' = [op EXCEPT ![t] = "get_note"]
       /\ frame' = [frame EXCEPT ![t].note_id = noteid, ![t].version = version,
                                 ![t].url = get_note_url(noteid, version)]
  /\ pc' = [pc EXCEPT ![t] = "get_note"]
  /\ UNCHANGED <<token, mark, callers, ret, sent, logins>>

\* trash_note and delete_note start with get_note(note_id)
CallTrashNote(t) ==
  /\ t \in callers
  /\ pc[t] = "idle"
  /\ \E note_id \in NoteIds :
       /\ op' = [op EXCEPT ![t] = "trash_note"]
       /\ frame' = [frame EXCEPT ![t].note_id = note_id,
                                 ![t].url = get_note_url(note_id, NoVersion)]
  /\ pc' = [pc EXCEPT ![t] = "get_note"]
  /\ UNCHANGED <<token, mark, callers, ret, sent, logins>>

CallDeleteNote(t) ==
  /\ t \in callers
  /\ pc[t] = "idle"
  /\ \E note_id \in NoteIds :
       /\ op' = [op EXCEPT ![t] = "delete_note"]
       /\ frame' = [frame EXCEPT ![t].note_id = note_id,
                                 ![t].url = get_note_url(note_id, NoVersion)]
  /\ pc' = [pc EXCEPT ![t] = "get_note"]
  /\ UNCHANGED <<token, mark, callers, ret, sent, logins>>

\* lines 257-258: trash_note marks the fetched note
trash_note_mark(note) == Put(note, "deleted", 1)

\* a get_note that repeats its GET after a failed attempt
GetNoteRetry(t) ==
  /\ t \in callers
  /\ pc[t] = "get_note"
  /\ ~NeedsLogin(token)
  /\ \E response \in NoteResponses :
       /\ Send(t, Request("GET", frame[t].url, get_auth_params(token), NoBody, response))
       /\ IF response.outcome = "IOError"
          THEN UNCHANGED <<pc, ret, frame>>
          ELSE LET note == encode(response.json)
               IN IF op[t] = "get_note"
                  THEN /\ Finished(t, Returned(note, 0))
                       /\ frame' = [frame EXCEPT ![t].note = note]
                  ELSE /\ EnterUpdateNote(t, trash_note_mark(note))
                       /\ UNCHANGED ret
  /\ UNCHANGED <<token, mark, callers, op, logins>>
\* lines 112-122: the GET, then back in the caller of get_note
GetNote(t) ==
  /\ t \in callers
  /\ pc[t] = "get_note"
  /\ ~NeedsLogin(token)
  /\ \E response \in NoteResponses :
       /\ Send(t, Request("GET", frame[t].url, get_auth_params(token), NoBody, response))
       /\ IF response.outcome = "IOError"
          THEN /\ Finished(t, OnIOError("get_note"))
               /\ UNCHANGED frame
          ELSE LET note == encode(response.json)
               IN IF op[t] = "get_note"
                  THEN /\ Finished(t, Returned(note, 0))
                       /\ frame' = [frame EXCEPT ![t].note = note]
                  ELSE \* trash_note, lines 254-261
                       /\ EnterUpdateNote(t, trash_note_mark(note))
                       /\ UNCHANGED ret
  /\ UNCHANGED <<token, mark, callers, op, logins>>

\* ---------------------------------------------------------------- delete_note
\* lines 284-289
DeleteNote(t) ==
  /\ t \in callers
  /\ pc[t] = "delete_note"
  /\ ~NeedsLogin(token)
  /\ \E response \in { [outcome |-> "ok", json |-> EmptyDict],
                       [outcome |-> "IOError", json |-> EmptyDict] } :
       /\ Send(t, Request("DELETE", delete_note_target(frame[t].note_id),
                          get_auth_params(token), NoBody, response))
       /\ IF response.outcome = "IOError"
          THEN Finished(t, OnIOError("delete_note"))
          ELSE Finished(t, Returned(EmptyDict, 0))
  /\ UNCHANGED <<token, mark, callers, op, frame, logins>>

\* -------------------------------------------------------------- get_note_list
\* lines 217-222: strptime/mktime of since; None and a malformed date raise
\* TypeError/ValueError and leave params without 'since'
since_parses(since) == since = "2018-01-02"
sinceUT(since) == CASE since = "2018-01-02" -> 1514851200 [] OTHER -> 0

\* a filter that asks for all of the tags rather than one of them
filter_tags_all(note_list, tags) ==
  SelectSeq(note_list, LAMBDA n : tags \subseteq n.tags)
\* line 234: the tag filter
filter_tags(note_list, tags) ==
  SelectSeq(note_list, LAMBDA n : (n.tags \cap tags) # {})

\* lines 229-236: what get_note_list returns once the loop has ended
get_note_list_result(notes, status, tags) ==
  Returned(IF Cardinality(tags) > 0 THEN filter_tags(notes, tags) ELSE notes, status)

\* a write of self.mark by t, seen from the listing calls of the other callers
MarkWritten(t, f) ==
  [u \in Threads |->
     IF u # t /\ pc[u] \in {"get_note_list", "get_notes"}
     THEN [f[u] EXCEPT !.disturbed = TRUE]
     ELSE f[u]]

\* a get_note_list that starts from whatever mark the instance holds
reset_mark_keep(m) == m
\* line 212: self.mark = "mark"
reset_mark(m) == "mark"

\* lines 209-212
CallGetNoteList(t) ==
  /\ t \in callers
  /\ pc[t] = "idle"
  /\ \E since \in Dates, tags \in SUBSET TagNames :
       /\ op' = [op EXCEPT ![t] = "get_note_list"]
       /\ frame' = MarkWritten(t, [frame EXCEPT ![t].since = since, ![t].tags = tags,
                                                  ![t].status = 0, ![t].notes = <<>>,
                                                  ![t].entry_mark = mark])
  /\ mark' = reset_mark(mark)
  /\ pc' = [pc EXCEPT ![t] = "get_note_list"]
  /\ UNCHANGED <<token, callers, ret, sent, logins>>

\* lines 214-222: the params of the call
list_params(tok, since) ==
  LET p == Put(get_auth_params(tok), "length", NOTE_FETCH_LENGTH)
  IN IF since_parses(since) THEN Put(p, "since", sinceUT(since)) ELSE p

\* lines 214-225: build params, then test the loop condition
ListParams(t) ==
  /\ t \in callers
  /\ pc[t] = "get_note_list"
  /\ ~NeedsLogin(token)
  /\ frame' = [frame EXCEPT ![t].params = list_params(token, frame[t].since)]
  /\ IF Truthy(mark)
     THEN /\ pc' = [pc EXCEPT ![t] = "get_notes"]
          /\ UNCHANGED ret
     ELSE Finished(t, get_note_list_result(frame[t].notes, frame[t].status, frame[t].tags))
  /\ UNCHANGED <<token, mark, callers, op, sent, logins>>

\* an accumulator that keeps the last page only
extend_overwrite(notes, data) == data
\* line 313: notes["data"].extend(notes_index["data"])
extend(notes, data) == notes \o data

\* page params that never carry a mark
page_params_nomark(params, m) == params
\* lines 307-308: the params of one page request
page_params(params, m) == IF m # "mark" THEN Put(params, "mark", m) ELSE params

\* a mark that falls back to the first-page sentinel instead of ending the loop
next_mark_restart(notes_index) ==
  IF Has(notes_index, "mark") THEN notes_index["mark"] ELSE "mark"
\* lines 318-321: the mark after a page
next_mark(notes_index) == IF Has(notes_index, "mark") THEN notes_index["mark"] ELSE ""

\* __get_notes (lines 305-323), then the loop condition of line 225 and, when
\* the loop ends, lines 229-236; responses is what the index endpoint may
\* answer to the request
GetNotesFrom(t, responses) ==
  /\ t \in callers
  /\ pc[t] = "get_notes"
  /\ \E response \in responses :
       LET params == page_params(frame[t].params, mark)
           failed == response.outcome = "IOError"
           notes_index == IF failed THEN EmptyDict ELSE response.json
           notes == IF failed THEN frame[t].notes ELSE extend(frame[t].notes, notes_index["data"])
           status == IF failed THEN -1 ELSE 0
       IN /\ Send(t, Request("GET", Url(INDX_URL, <<>>), params, NoBody, response))
          /\ mark' = next_mark(notes_index)
          /\ frame' = MarkWritten(t, [frame EXCEPT ![t].params = params, ![t].notes = notes,
                                                     ![t].status = status])
          /\ IF Truthy(mark')
             THEN UNCHANGED <<pc, ret>>
             ELSE Finished(t, get_note_list_result(notes, status, frame[t].tags))
  /\ UNCHANGED <<token, callers, op, logins>>

\* a page request against any server
GetNotes(t) ==
  GetNotesFrom(t, IndexResponses(Len(sent[t]) + 1))

\* a page request against the server whose listing does not change
GetNotesServed(t) ==
  /\ Len(sent[t]) < MaxConcRequests
  /\ GetNotesFrom(t, ServerResponses(page_params(frame[t].params, mark)))

\* the caller takes the result; the thread is free for its next call
Finish(t) ==
  /\ t \in callers
  /\ pc[t] = "done"
  /\ op' = [op EXCEPT ![t] = "idle"]
  /\ pc' = [pc EXCEPT ![t] = "idle"]
  /\ frame' = [frame EXCEPT ![t] = Frame0]
  /\ ret' = [ret EXCEPT ![t] = NoRet]
  /\ sent' = [sent EXCEPT ![t] = <<>>]
  /\ UNCHANGED <<token, mark, callers, logins>>

Next ==
  \E t \in Threads :
    \/ Authenticate(t)
    \/ CallGetToken(t)
    \/ GetTokenReturn(t)
    \/ CallGetNote(t)
    \/ GetNote(t)
    \/ CallUpdateNote(t)
    \/ UpdateNote(t)
    \/ CallAddNote(t)
    \/ CallTrashNote(t)
    \/ CallDeleteNote(t)
    \/ DeleteNote(t)
    \/ CallGetNoteList(t)
    \/ ListParams(t)
    \/ GetNotes(t)
    \/ Finish(t)

Spec == Init /\ [][Next]_vars

\* two callers on one instance without synchronisation, each making one
\* get_note_list call against the server whose listing does not change
InitConc == InitInstance /\ callers = Threads

NextConc ==
  \E t \in Threads :
    \/ Authenticate(t)
    \/ CallGetNoteList(t)
    \/ ListParams(t)
    \/ GetNotesServed(t)

SpecConc == InitConc /\ [][NextConc]_vars

\* ===================================================================== claims
\* the requests of a call that got a response
Ok(request) == request.response.outcome = "ok"
AllOk(requests) == \A i \in 1..Len(requests) : Ok(requests[i])
\* the continuation mark a served page carries, empty when it carries none
MarkOf(request) ==
  IF Has(request.response.json, "mark") THEN request.response.json["mark"] ELSE ""
\* the data arrays of the served pages of a call, concatenated in page order
RECURSIVE PagesData(_)
PagesData(requests) ==
  IF requests = <<>> THEN <<>>
  ELSE LET n == Len(requests)
           before == PagesData(SubSeq(requests, 1, n - 1))
       IN IF Ok(requests[n]) THEN before \o requests[n].response.json["data"] ELSE before
\* the records of a list that carry at least one of the tags, in list order
RECURSIVE Matching(_, _)
Matching(list, tags) ==
  IF list = <<>> THEN <<>>
  ELSE LET rest == Matching(Tail(list), tags)
       IN IF \E x \in tags : x \in Head(list).tags THEN <<Head(list)>> \o rest ELSE rest
\* the positions of the requests of a call made with the given method
Positions(requests, method) == { i \in 1..Len(requests) : requests[i].method = method }

\* every login so far was answered with the fixed token
FixedToken ==
  \A i \in 1..Len(logins) :
    logins[i].response = [outcome |-> "ok", status_code |-> 200, text |-> "tok"]

\* C1: while the login endpoint answers with one fixed non-empty token, the
\* client sends at most one login request over all its calls; every get_token
\* that has returned, directly or for the auth params of a data or index
\* request, came after exactly one login and yielded that token.
C1_TokenCachedOnce ==
  FixedToken =>
    /\ Len(logins) <= 1
    /\ \A t \in callers :
         /\ (op[t] = "get_token" /\ ret[t].kind = "return") =>
              (Len(logins) = 1 /\ ret[t].value = "tok")
         /\ \A i \in 1..Len(sent[t]) :
              (Len(logins) = 1 /\ sent[t][i].params["auth"] = "tok")

\* one delete_note call asked for the token three times after a single login
C1_Witness ==
  /\ FixedToken
  /\ Len(logins) = 1
  /\ \E t \in callers :
       op[t] = "delete_note" /\ Len(sent[t]) = 3 /\ Ok(sent[t][3])

\* C2: when every page request of a get_note_list call is served, the call
\* requests a further page exactly while the last served mark is non-empty,
\* and a call without tags returns the concatenation of the served pages'
\* data in page order with status 0, having sent one request per page.
C2_PagesConcatenated ==
  \A t \in callers :
    (op[t] = "get_note_list" /\ sent[t] # <<>> /\ AllOk(sent[t])) =>
      LET n == Len(sent[t])
      IN /\ \A i \in 1..(n - 1) : MarkOf(sent[t][i]) # ""
         /\ (pc[t] = "done") <=> (MarkOf(sent[t][n]) = "")
         /\ frame[t].notes = PagesData(sent[t])
         /\ (pc[t] = "done" /\ frame[t].tags = {}) =>
              ret[t] = Returned(PagesData(sent[t]), 0)

\* pages [A]/"m1" then [C]/"" were served and the call returned [A, C]
C2_Witness ==
  \E t \in callers :
    /\ op[t] = "get_note_list" /\ pc[t] = "done" /\ frame[t].tags = {}
    /\ Len(sent[t]) = 2 /\ AllOk(sent[t])
    /\ MarkOf(sent[t][1]) = "m1"
    /\ Has(sent[t][2].response.json, "mark")
    /\ Len(ret[t].value) = 2
    /\ ret[t].value[1].key = "A"
    /\ ret[t].value[2].key = "C"

\* C3: a connectivity failure of the k-th page request of a get_note_list
\* call ends the call there: it is the last request, the call has returned
\* (not raised) with status -1, the mark is empty, and a call without tags
\* returns exactly the data of the k-1 pages served before.
C3_PageFailureReturnsPartial ==
  \A t \in callers :
    op[t] = "get_note_list" =>
      \A k \in 1..Len(sent[t]) :
        ~Ok(sent[t][k]) =>
          /\ k = Len(sent[t])
          /\ pc[t] = "done"
          /\ ret[t].kind = "return"
          /\ ret[t].status = -1
          /\ mark = ""
          /\ frame[t].tags = {} => ret[t].value = PagesData(SubSeq(sent[t], 1, k - 1))

\* the second page request failed after a first page with records
C3_Witness ==
  \E t \in callers :
    /\ op[t] = "get_note_list" /\ pc[t] = "done"
    /\ Len(sent[t]) = 2 /\ Ok(sent[t][1]) /\ ~Ok(sent[t][2])
    /\ frame[t].tags = {}
    /\ Len(ret[t].value) = 1

\* C4: get_note_list accumulates the pages unfiltered, whatever the tags; what
\* it returns is that list itself when tags is empty, and otherwise the
\* records of it, deleted ones included, whose tags share an element with the
\* requested tags, in their original order; no page request carries the tags.
C4_TagFilterAfterAssembly ==
  \A t \in callers :
    op[t] = "get_note_list" =>
      /\ frame[t].notes = PagesData(sent[t])
      /\ \A i \in 1..Len(sent[t]) :
           /\ sent[t][i].url = <<INDX_URL>>
           /\ DOMAIN sent[t][i].params \subseteq {"auth", "email", "length", "since", "mark"}
           /\ sent[t][i].params["auth"] = token
           /\ sent[t][i].params["email"] = Username
           /\ sent[t][i].params["length"] = NOTE_FETCH_LENGTH
           /\ Has(sent[t][i].params, "since") <=> (frame[t].since = "2018-01-02")
      /\ (pc[t] = "done" /\ ret[t].kind = "return") =>
           ret[t].value = IF frame[t].tags = {} THEN PagesData(sent[t])
                          ELSE Matching(PagesData(sent[t]), frame[t].tags)

\* a call with tags {x, y} over two pages dropped the untagged record of the
\* first page and kept the deleted record tagged x of the second
C4_Witness ==
  \E t \in callers :
    /\ op[t] = "get_note_list" /\ pc[t] = "done" /\ ret[t].kind = "return"
    /\ frame[t].tags = {"x", "y"}
    /\ Len(sent[t]) = 2 /\ AllOk(sent[t])
    /\ Len(frame[t].notes) = 2
    /\ frame[t].notes[1].tags = {}
    /\ Len(ret[t].value) = 1
    /\ ret[t].value[1].deleted = 1
    /\ \E j \in 1..Len(sent[t][2].response.json["data"]) :
         sent[t][2].response.json["data"][j] = ret[t].value[1]

\* C5: a finished update_note call has issued exactly one POST, to the per-id
\* endpoint {DATA_URL}/{key} if and only if the note it was given has a key,
\* to the collection endpoint {DATA_URL} if and only if it has none.
C5_UpdateNoteOnePost ==
  \A t \in callers :
    (op[t] = "update_note" /\ pc[t] = "done") =>
      /\ Len(sent[t]) = 1
      /\ sent[t][1].method = "POST"
      /\ Has(frame[t].arg, "key") <=> (sent[t][1].url = <<DATA_URL, frame[t].arg["key"]>>)
      /\ ~Has(frame[t].arg, "key") <=> (sent[t][1].url = <<DATA_URL>>)

\* C6: the body update_note posts is the caller's note; it differs from it
\* only when the note has a key and no modifydate, and then only by an added
\* modifydate holding the current time.
C6_ModifydateInjected ==
  \A t \in callers :
    op[t] = "update_note" =>
      \A i \in Positions(sent[t], "POST") :
        LET arg == frame[t].arg
            body == sent[t][i].json[1]
        IN /\ (Has(arg, "key") /\ ~Has(arg, "modifydate")) =>
                /\ DOMAIN body = DOMAIN arg \cup {"modifydate"}
                /\ body["modifydate"] = Now
                /\ \A f \in DOMAIN arg : body[f] = arg[f]
           /\ Has(arg, "modifydate") => body = arg
           /\ ~Has(arg, "key") => body = arg

\* a note with a key and content but no modifydate was posted with the
\* current time as its modifydate
C6_Witness ==
  \E t \in callers :
    /\ op[t] = "update_note" /\ Len(sent[t]) = 1 /\ sent[t][1].method = "POST"
    /\ DOMAIN frame[t].arg = {"key", "content"}
    /\ sent[t][1].json[1]["modifydate"] = Now
    /\ sent[t][1].json[1]["content"] = frame[t].arg["content"]

\* C7: when the GET of a trash_note call fails, the call has returned the
\* error with status -1 and has issued nothing after the GET.
C7_TrashPropagatesFetchFailure ==
  \A t \in callers :
    (op[t] = "trash_note" /\ sent[t] # <<>> /\ ~Ok(sent[t][1])) =>
      /\ pc[t] = "done"
      /\ Len(sent[t]) = 1
      /\ ret[t].kind = "return"
      /\ ret[t].status = -1

\* C8: within a delete_note call a DELETE is the third request, after the
\* GET of the note and the POST of it with deleted = 1 both succeeded; when
\* the GET or the POST fails the call has ended without a DELETE and has
\* returned the failure with status -1.
C8_TrashBeforeDelete ==
  \A t \in callers :
    op[t] = "delete_note" =>
      /\ \A i \in Positions(sent[t], "DELETE") :
           /\ i = 3
           /\ sent[t][1].method = "GET" /\ Ok(sent[t][1])
           /\ sent[t][2].method = "POST" /\ Ok(sent[t][2])
           /\ sent[t][2].json[1]["deleted"] = 1
      /\ \A k \in 1..Len(sent[t]) :
           (k <= 2 /\ ~Ok(sent[t][k])) =>
             /\ pc[t] = "done"
             /\ Len(sent[t]) = k
             /\ ret[t].kind = "return"
             /\ ret[t].status = -1

\* C9: every DELETE request of delete_note(id) goes to {DATA_URL}/{id}.
C9_DeleteIsIdScoped ==
  \A t \in callers :
    op[t] = "delete_note" =>
      \A i \in Positions(sent[t], "DELETE") :
        sent[t][i].url = <<DATA_URL, frame[t].note_id>>

\* C10: authenticate raises SimplenoteLoginFailed when the login request
\* fails at HTTP level, and raises nothing and returns an absent or empty
\* token when it fails at connectivity level.
C10_LoginFailureAsymmetry ==
  \A i \in 1..Len(logins) :
    /\ (logins[i].response.outcome = "ok" /\ logins[i].response.status_code >= 400) =>
         logins[i].result.raised = "SimplenoteLoginFailed"
    /\ logins[i].response.outcome = "IOError" =>
         (logins[i].result.raised = None /\ logins[i].result.token \in {None, ""})

\* C11: when a data request of get_note, update_note, trash_note or
\* delete_note fails at connectivity level, the call has returned the error
\* with status -1; it has not raised.
C11_DataFailureReturned ==
  \A t \in callers :
    op[t] \in {"get_note", "update_note", "trash_note", "delete_note"} =>
      \A k \in 1..Len(sent[t]) :
        ~Ok(sent[t][k]) =>
          /\ pc[t] = "done"
          /\ ret[t].kind = "return"
          /\ ret[t].status = -1
          /\ ret[t].value = Exc("IOError")

\* C12: every request sent to the data or the index endpoint carries the
\* query parameters auth, holding the client's cached token, and email,
\* holding the client's username.
C12_RequestsCarryAuth ==
  \A t \in callers :
    \A i \in 1..Len(sent[t]) :
      /\ sent[t][i].url[1] \in {DATA_URL, INDX_URL}
      /\ Has(sent[t][i].params, "auth")
      /\ Has(sent[t][i].params, "email")
      /\ token # None
      /\ sent[t][i].params["auth"] = token
      /\ sent[t][i].params["email"] = Username

\* the second page request of a listing carried the token and the username
\* next to its mark
C12_Witness ==
  \E t \in callers :
    /\ op[t] = "get_note_list" /\ Len(sent[t]) = 2
    /\ token = "tok"
    /\ sent[t][2].params["auth"] = "tok"
    /\ sent[t][2].params["email"] = Username
    /\ Has(sent[t][2].params, "mark")

\* C13: add_note hands a string to update_note wrapped as {content: string}
\* and a dict holding content as it is, and the call then posts that note as
\* update_note does; given anything else it has returned the error message
\* with status -1 at once, without a data request and without a login.
C13_AddNoteShapes ==
  \A t \in callers :
    op[t] = "add_note" =>
      LET a == frame[t].arg
          isStr == a.type = "str"
          isNote == a.type = "dict" /\ Has(a.dict, "content")
          given == IF isStr THEN [content |-> a.text] ELSE a.dict
      IN /\ (isStr \/ isNote) =>
              /\ Len(sent[t]) <= 1
              /\ pc[t] = "update_note" => sent[t] = <<>>
              /\ (pc[t] = "done" /\ sent[t] = <<>>) => frame[t].logins = 1
              /\ \A i \in 1..Len(sent[t]) :
                   /\ sent[t][i].method = "POST"
                   /\ \A f \in DOMAIN given : sent[t][i].json[1][f] = given[f]
                   /\ DOMAIN sent[t][i].json[1] \subseteq DOMAIN given \cup {"modifydate"}
                   /\ sent[t][i].url = IF Has(given, "key") THEN <<DATA_URL, given["key"]>>
                                       ELSE <<DATA_URL>>
         /\ ~(isStr \/ isNote) =>
              /\ pc[t] = "done"
              /\ ret[t] = Returned("No string or valid note.", -1)
              /\ sent[t] = <<>>
              /\ frame[t].logins = 0

\* a string was posted as a new note, wrapped
C13_Witness ==
  \E t \in callers :
    /\ op[t] = "add_note" /\ frame[t].arg.type = "str"
    /\ Len(sent[t]) = 1 /\ Ok(sent[t][1])
    /\ sent[t][1].json[1] = [content |-> "hi"]
    /\ sent[t][1].url = <<DATA_URL>>
    /\ ret[t].kind = "return" /\ ret[t].status = 0

\* C14: within a get_note_list call the first listing request carries no mark
\* parameter, and every later one carries as mark exactly the mark the page
\* before it returned, whatever non-empty text that mark is.
C14_MarkPassedOn ==
  \A t \in callers :
    op[t] = "get_note_list" =>
      \A i \in 1..Len(sent[t]) :
        IF i = 1 THEN ~Has(sent[t][i].params, "mark")
        ELSE /\ Has(sent[t][i].params, "mark")
             /\ sent[t][i].params["mark"] = MarkOf(sent[t][i - 1])

\* C15: in a get_note_list call only the last page request can have yielded
\* an empty or absent mark (a failed request yields none), and once it has,
\* the call has left the fetch loop and returned.
C15_EmptyMarkEndsLoop ==
  \A t \in callers :
    op[t] = "get_note_list" =>
      \A i \in 1..Len(sent[t]) :
        MarkOf(sent[t][i]) = "" =>
          /\ i = Len(sent[t])
          /\ pc[t] = "done"
          /\ ret[t].kind = "return"

\* a first page without a mark field ended a call after one request
C15_Witness ==
  \E t \in callers :
    /\ op[t] = "get_note_list" /\ pc[t] = "done"
    /\ Len(sent[t]) = 1 /\ Ok(sent[t][1])
    /\ ~Has(sent[t][1].response.json, "mark")
    /\ Len(ret[t].value) = 1

\* the logins of the instance that returned a token, in order
ReturnedLogins == SelectSeq(logins, LAMBDA l : l.result.raised = None)

\* C16 (as stated): a call makes at most one login request and its result is
\* cached; a login is made exactly over a falsy cached value, None or the
\* empty string alike, so get_token never returns a cached empty token
\* without having logged in again.
C16_FalsyTokenRetried ==
  /\ \A t \in callers : frame[t].logins <= 1
  /\ \A i \in 1..Len(logins) : logins[i].cached \in {None, ""}
  /\ ReturnedLogins # <<>> => token = ReturnedLogins[Len(ReturnedLogins)].result.token
  /\ \A t \in callers :
       (op[t] = "get_token" /\ pc[t] = "done" /\ ret[t].kind = "return"
          /\ frame[t].logins = 0) => ret[t].value \notin {None, ""}

\* C16 (amended): a call makes at most one login request and its result is
\* cached, whatever it is; a login is made exactly over the cached value
\* None, so get_token returns any cached string, the empty one included,
\* without another login.
C16_OnlyNoneRetried ==
  /\ \A t \in callers : frame[t].logins <= 1
  /\ \A i \in 1..Len(logins) : logins[i].cached = None
  /\ IF ReturnedLogins # <<>>
     THEN token = ReturnedLogins[Len(ReturnedLogins)].result.token
     ELSE token = None
  /\ \A t \in callers :
       (op[t] = "get_token" /\ pc[t] = "done" /\ ret[t].kind = "return") =>
         /\ ret[t].value = token
         /\ token # None
         /\ frame[t].logins = 1 => logins[Len(logins)].cached = None

\* get_token returned a cached empty token without logging in
C16_Witness ==
  \E t \in callers :
    /\ op[t] = "get_token" /\ pc[t] = "done"
    /\ ret[t] = Returned("", 0)
    /\ frame[t].logins = 0
    /\ Len(logins) = 1

\* is the sequence a a prefix of the sequence b?
IsPrefix(a, b) == Len(a) <= Len(b) /\ \A i \in 1..Len(a) : a[i] = b[i]
\* the methods of the requests of a call, in order
Methods(requests) == [i \in 1..Len(requests) |-> requests[i].method]

\* C17: no call repeats a request: get_note sends at most one GET,
\* update_note and add_note at most one POST, trash_note at most GET then
\* POST, delete_note at most GET, POST, DELETE; a request that failed is the
\* last request of its call, and the call has ended with it.
C17_NoRetries ==
  \A t \in callers :
    LET n == Len(sent[t])
        most == CASE op[t] = "get_note" -> <<"GET">>
                  [] op[t] \in {"update_note", "add_note"} -> <<"POST">>
                  [] op[t] = "trash_note" -> <<"GET", "POST">>
                  [] op[t] = "delete_note" -> <<"GET", "POST", "DELETE">>
                  [] op[t] = "get_note_list" -> Methods(sent[t])
                  [] OTHER -> <<>>
    IN /\ IsPrefix(Methods(sent[t]), most)
       /\ \A i \in 1..n : ~Ok(sent[t][i]) => (i = n /\ pc[t] = "done")

\* a delete_note ended after its second request, the POST, had failed
C17_Witness ==
  \E t \in callers :
    /\ op[t] = "delete_note" /\ pc[t] = "done"
    /\ Len(sent[t]) = 2
    /\ Ok(sent[t][1]) /\ ~Ok(sent[t][2])

\* C18: the POST of trash_note(id) carries the fetched note with deleted set
\* to 1 and every other fetched field as fetched, and goes to the per-id
\* endpoint of the id passed in, whatever record the fetch returned.
C18_TrashPostsToPassedId ==
  \A t \in callers :
    op[t] \in {"trash_note", "delete_note"} =>
      \A i \in Positions(sent[t], "POST") :
        LET fetched == sent[t][1].response.json
            posted == sent[t][i].json[1]
        IN /\ sent[t][1].method = "GET" /\ Ok(sent[t][1])
           /\ DOMAIN fetched \subseteq DOMAIN posted
           /\ posted["deleted"] = 1
           /\ \A f \in DOMAIN fetched \ {"deleted"} : posted[f] = fetched[f]
           /\ sent[t][i].url = Url(DATA_URL, <<frame[t].note_id>>)

\* C20: a get_note_list call starts from the first-page mark whatever mark it
\* found on the instance, so its first request carries no mark parameter; and
\* whenever a get_note_list call has returned, the mark of the instance is
\* empty.
C20_ListingsIndependent ==
  \A t \in callers :
    op[t] = "get_note_list" =>
      /\ pc[t] = "get_note_list" => mark = "mark"
      /\ Len(sent[t]) >= 1 => ~Has(sent[t][1].params, "mark")
      /\ (pc[t] = "done" /\ ret[t].kind = "return") => mark = ""

\* a listing that found the empty mark of an earlier listing on the instance
\* sent its first request without a mark and returned
C20_Witness ==
  \E t \in callers :
    /\ op[t] = "get_note_list" /\ pc[t] = "done" /\ ret[t].kind = "return"
    /\ frame[t].entry_mark = ""
    /\ Len(sent[t]) = 2
    /\ ~Has(sent[t][1].params, "mark")

\* C19: the mark is shared by the callers of an instance. Against a server
\* whose listing does not change, a get_note_list call during which no other
\* caller wrote the mark collects the pages of that listing in order, one
\* request per page, and returns the listing (filtered by its tags); so the
\* differing list of the witness below is the work of the other call's
\* writes to the mark.
C19_UndisturbedListing ==
  \A t \in callers :
    (op[t] = "get_note_list" /\ ~frame[t].disturbed) =>
      /\ IsPrefix(frame[t].notes, ServerListing)
      /\ Len(sent[t]) = Len(frame[t].notes)
      /\ (pc[t] = "done" /\ ret[t].kind = "return") =>
           ret[t] = get_note_list_result(ServerListing, 0, frame[t].tags)

\* two listing calls interleaved, and one of them, with no tags to filter by,
\* returned a list that is not the server's listing
C19_Witness ==
  \E t \in callers :
    /\ op[t] = "get_note_list" /\ pc[t] = "done" /\ ret[t].kind = "return"
    /\ frame[t].tags = {}
    /\ frame[t].disturbed
    /\ Len(sent[t]) >= 1
    /\ ret[t].value # ServerListing
====
